---- MODULE Spec2Model ----
(***************************************************************************)
(* LOUDS (Level-Order Unary Degree Sequence) tree of louds-rs.             *)
(*                                                                         *)
(* A Louds owns one Fid (bit vector with rank/select) holding the LBS.     *)
(* Positions (LoudsIndex) are 0-origin, node numbers (LoudsNodeNum) are    *)
(* 1-origin.  A bit sequence is a TLA+ sequence over {0,1}; the bit at     *)
(* position p is b[p + 1].                                                 *)
(*                                                                         *)
(* Results of operations are records [ok, v]: ok = FALSE is a panic,       *)
(* otherwise v is the returned value as a sequence (<<x>> for a scalar or  *)
(* Some(x), <<>> for None or unit, the whole vector for a Vec).            *)
(***************************************************************************)
EXTENDS Integers, Sequences, FiniteSets, TLC

VARIABLES input, phase, lbs, last, iter, text, hist, pair, runs, trace, eager

vars == <<input, phase, lbs, last, iter, text, hist, pair, runs, trace, eager>>

\* Longest bit sequence handed to the constructor (besides RefTree).
MaxLen == 7

\* Reference tree of the documentation and the unit tests:
\* 10_1110_10_0_1110_0_0_10_110_0_0_0
RefTree == <<1,0, 1,1,1,0, 1,0, 0, 1,1,1,0, 0, 0, 1,0, 1,1,0, 0, 0, 0>>

RECURSIVE BitSeqs(_)
BitSeqs(n) ==
    IF n = 0 THEN {<<>>}
    ELSE LET shorter == BitSeqs(n - 1)
         IN  shorter \cup {Append(s, b) : s \in {t \in shorter : Len(t) = n - 1}, b \in {0, 1}}

Inputs == BitSeqs(MaxLen) \cup {RefTree}

\* Longest token string handed to the constructor.
MaxTextLen == 5

\* Characters of a token string: the two bits, the separator and one
\* character that is none of them.
Chars == {"0", "1", "_", "x"}

RECURSIVE CharSeqs(_)
CharSeqs(n) ==
    IF n = 0 THEN {<<>>}
    ELSE LET shorter == CharSeqs(n - 1)
         IN  shorter \cup {Append(s, c) : s \in {t \in shorter : Len(t) = n - 1}, c \in Chars}

Texts == CharSeqs(MaxTextLen)

Panic == [ok |-> FALSE, v |-> <<>>]
Ok(v) == [ok |-> TRUE, v |-> v]

None == <<>>
Some(x) == <<x>>

(***************************************************************************)
(* The Fid collaborator (crate fid_rs): indexed access, rank, rank0,       *)
(* select, select0.                                                        *)
(***************************************************************************)
\* fid[i]; the caller guards i < length (out of range is a panic).
access(b, i) == b[i + 1] = 1

InRange(b, i) == i >= 0 /\ i < Len(b)

\* Number of 1-bits in [0, i].
RECURSIVE rank(_, _)
rank(b, i) == IF i < 0 THEN 0 ELSE rank(b, i - 1) + (IF access(b, i) THEN 1 ELSE 0)

\* Number of 0-bits in [0, i].
rank0(b, i) == (i + 1) - rank(b, i)

\* Position of the num-th 1-bit (1-origin), None when there is none.
RECURSIVE select_from(_, _, _)
select_from(b, i, num) ==
    IF i >= Len(b) THEN None
    ELSE IF rank(b, i) >= num THEN Some(i)
    ELSE select_from(b, i + 1, num)

select(b, num) == IF num < 1 THEN None ELSE select_from(b, 0, num)

\* Position of the num-th 0-bit (1-origin), None when there is none.
RECURSIVE select0_from(_, _, _)
select0_from(b, i, num) ==
    IF i >= Len(b) THEN None
    ELSE IF rank0(b, i) >= num THEN Some(i)
    ELSE select0_from(b, i + 1, num)

select0(b, num) == IF num < 1 THEN None ELSE select0_from(b, 0, num)

(***************************************************************************)
(* Louds::validate_lbs: TRUE when it returns, FALSE when an assertion (or  *)
(* an out-of-range bit read) panics.                                       *)
(***************************************************************************)
\* The counting loop without the final assert_eq!(cnt0, cnt1 + 1).
RECURSIVE validate_scan_nofinal(_, _, _, _)
validate_scan_nofinal(b, i, cnt0, cnt1) ==
    IF i >= Len(b) THEN TRUE
    ELSE LET c1 == IF access(b, i) THEN cnt1 + 1 ELSE cnt1
             c0 == IF access(b, i) THEN cnt0 ELSE cnt0 + 1
         IN  IF c0 <= c1 + 1 THEN validate_scan_nofinal(b, i + 1, c0, c1) ELSE FALSE

RECURSIVE validate_scan(_, _, _, _)
validate_scan(b, i, cnt0, cnt1) ==
    IF i >= Len(b) THEN cnt0 = cnt1 + 1
    ELSE LET c1 == IF access(b, i) THEN cnt1 + 1 ELSE cnt1
             c0 == IF access(b, i) THEN cnt0 ELSE cnt0 + 1
         IN  IF c0 <= c1 + 1 THEN validate_scan(b, i + 1, c0, c1) ELSE FALSE

\* validate_lbs without its second assertion (bit 1 must be 0).
validate_lbs_nobit1(b) ==
    /\ InRange(b, 0) /\ access(b, 0)
    /\ validate_scan(b, 0, 0, 0)

validate_lbs(b) ==
    /\ InRange(b, 0) /\ access(b, 0)
    /\ InRange(b, 1) /\ ~access(b, 1)
    /\ validate_scan(b, 0, 0, 0)

(***************************************************************************)
(* impl From<&str> for Louds: the characters kept by the filter, or Panic  *)
(* at the first character that is not '0', '1' or '_'; then the Fid built  *)
(* from the kept characters.                                               *)
(***************************************************************************)
\* The filter dropping every character that is not a bit.
RECURSIVE filter_chars_skip(_, _, _)
filter_chars_skip(s, i, acc) ==
    IF i > Len(s) THEN Ok(acc)
    ELSE IF s[i] \in {"0", "1"} THEN filter_chars_skip(s, i + 1, Append(acc, s[i]))
    ELSE filter_chars_skip(s, i + 1, acc)

RECURSIVE filter_chars(_, _, _)
filter_chars(s, i, acc) ==
    IF i > Len(s) THEN Ok(acc)
    ELSE IF s[i] \in {"0", "1"} THEN filter_chars(s, i + 1, Append(acc, s[i]))
    ELSE IF s[i] = "_" THEN filter_chars(s, i + 1, acc)
    ELSE Panic

\* Fid::from(&str) on a string of '0' and '1'.
Fid_from_str(s) == [i \in 1 .. Len(s) |-> IF s[i] = "1" THEN 1 ELSE 0]

\* Louds::from(&str): [ok, lbs].
from_str(s) ==
    LET kept == filter_chars(s, 1, <<>>)
    IN  IF ~kept.ok THEN [ok |-> FALSE, lbs |-> <<>>]
        ELSE LET fid == Fid_from_str(kept.v)
             IN  IF validate_lbs(fid) THEN [ok |-> TRUE, lbs |-> fid]
                 ELSE [ok |-> FALSE, lbs |-> <<>>]

(***************************************************************************)
(* Queries of Louds.                                                       *)
(***************************************************************************)
\* TRUE when validate_index returns, FALSE when it panics.
validate_index(b, index) == InRange(b, index) /\ access(b, index)

\* node_num_to_index taking the node number as 0-origin.
node_num_to_index_next(b, node_num) ==
    IF ~(node_num > 0) THEN Panic
    ELSE LET index == select(b, node_num + 1)
         IN  IF index = None THEN Panic ELSE Ok(<<index[1]>>)

\* node_num_to_index falling back to position 0 when select finds nothing.
node_num_to_index_default(b, node_num) ==
    IF ~(node_num > 0) THEN Panic
    ELSE LET index == select(b, node_num)
         IN  IF index = None THEN Ok(<<0>>) ELSE Ok(<<index[1]>>)

\* node_num_to_index answering the position after the node's 1-bit.
node_num_to_index_after(b, node_num) ==
    IF ~(node_num > 0) THEN Panic
    ELSE LET index == select(b, node_num)
         IN  IF index = None THEN Panic ELSE Ok(<<index[1] + 1>>)

node_num_to_index(b, node_num) ==
    IF ~(node_num > 0) THEN Panic
    ELSE LET index == select(b, node_num)
         IN  IF index = None THEN Panic ELSE Ok(<<index[1]>>)

\* index_to_node_num counting the 0-bits instead of the 1-bits.
index_to_node_num_rank0(b, index) ==
    IF ~validate_index(b, index) THEN Panic
    ELSE Ok(<<rank0(b, index)>>)

\* index_to_node_num with an exclusive rank, [0, index).
index_to_node_num_excl(b, index) ==
    IF ~validate_index(b, index) THEN Panic
    ELSE Ok(<<rank(b, index - 1)>>)

\* index_to_node_num without validate_index: any position inside the
\* sequence is answered.
index_to_node_num_nocheck(b, index) ==
    IF ~InRange(b, index) THEN Panic
    ELSE Ok(<<rank(b, index)>>)

index_to_node_num(b, index) ==
    IF ~validate_index(b, index) THEN Panic
    ELSE Ok(<<rank(b, index)>>)

\* child_to_parent counting the 1-bits instead of the 0-bits.
child_to_parent_rank(b, index) ==
    IF ~validate_index(b, index) THEN Panic
    ELSE IF ~(index # 0) THEN Panic
    ELSE Ok(<<rank(b, index)>>)

\* child_to_parent leaving out the virtual root's terminator.
child_to_parent_minus(b, index) ==
    IF ~validate_index(b, index) THEN Panic
    ELSE IF ~(index # 0) THEN Panic
    ELSE Ok(<<rank0(b, index) - 1>>)

\* child_to_parent without the assertion index != 0.
child_to_parent_root(b, index) ==
    IF ~validate_index(b, index) THEN Panic
    ELSE Ok(<<rank0(b, index)>>)

child_to_parent(b, index) ==
    IF ~validate_index(b, index) THEN Panic
    ELSE IF ~(index # 0) THEN Panic
    ELSE Ok(<<rank0(b, index)>>)

(***************************************************************************)
(* ChildIndexIter {inner, node, start, end}: start and end are Options.    *)
(* Each iterator operation returns [it, ret]: the iterator after the call  *)
(* (fields assigned before a panic stay assigned) and the result.          *)
(***************************************************************************)
\* Marker for a u64 subtraction below zero (a panic in a debug build, a
\* wrapped value in a release build).
Underflow == [ok |-> FALSE, v |-> <<0 - 1>>]

NoIter == [live |-> FALSE, kind |-> "index", node |-> 0, start |-> None, end |-> None]

\* parent_to_children_indices resolving start when the iterator is made.
parent_to_children_indices_eager(b, node_num) ==
    IF ~(node_num > 0) THEN [it |-> NoIter, ret |-> Panic]
    ELSE LET s0 == select0(b, node_num)
         IN  IF s0 = None THEN [it |-> NoIter, ret |-> Panic]
             ELSE [it  |-> [live |-> TRUE, kind |-> "index", node |-> node_num,
                            start |-> Some(s0[1] + 1), end |-> None],
                   ret |-> Ok(<<>>)]

parent_to_children_indices(b, node_num) ==
    IF ~(node_num > 0) THEN [it |-> NoIter, ret |-> Panic]
    ELSE [it  |-> [live |-> TRUE, kind |-> "index", node |-> node_num,
                   start |-> None, end |-> None],
          ret |-> Ok(<<>>)]

parent_to_children_nodes(b, node_num) ==
    LET r == parent_to_children_indices(b, node_num)
    IN  IF r.ret.ok THEN [it |-> [r.it EXCEPT !.kind = "node"], ret |-> r.ret] ELSE r

\* next() resolving start two past the parent's terminator: the first child
\* is skipped.
ChildIndexIter_next_skip(b, it) ==
    LET s0 == select0(b, it.node)
    IN  IF it.start = None /\ s0 = None THEN [it |-> it, ret |-> Panic]
        ELSE LET start == IF it.start = None THEN s0[1] + 2 ELSE it.start[1]
                 it1   == [it EXCEPT !.start = Some(start)]
             IN  IF it.end = None /\ ~InRange(b, start) THEN [it |-> it1, ret |-> Panic]
                 ELSE LET more == IF it.end # None THEN start <= it.end[1]
                                  ELSE access(b, start)
                      IN  IF more
                          THEN [it |-> [it1 EXCEPT !.start = Some(start + 1)],
                                ret |-> Ok(Some(start))]
                          ELSE [it |-> it1, ret |-> Ok(None)]

\* next() starting at the parent's terminator instead of one past it.
ChildIndexIter_next_at(b, it) ==
    LET s0 == select0(b, it.node)
    IN  IF it.start = None /\ s0 = None THEN [it |-> it, ret |-> Panic]
        ELSE LET start == IF it.start = None THEN s0[1] ELSE it.start[1]
                 it1   == [it EXCEPT !.start = Some(start)]
             IN  IF it.end = None /\ ~InRange(b, start) THEN [it |-> it1, ret |-> Panic]
                 ELSE LET more == IF it.end # None THEN start <= it.end[1]
                                  ELSE access(b, start)
                      IN  IF more
                          THEN [it |-> [it1 EXCEPT !.start = Some(start + 1)],
                                ret |-> Ok(Some(start))]
                          ELSE [it |-> it1, ret |-> Ok(None)]

\* next() reading a bit past the end of the sequence as 0 instead of
\* panicking.
ChildIndexIter_next_lenient(b, it) ==
    LET s0 == select0(b, it.node)
    IN  IF it.start = None /\ s0 = None THEN [it |-> it, ret |-> Panic]
        ELSE LET start == IF it.start = None THEN s0[1] + 1 ELSE it.start[1]
                 it1   == [it EXCEPT !.start = Some(start)]
                 more  == IF it.end # None THEN start <= it.end[1]
                          ELSE InRange(b, start) /\ access(b, start)
             IN  IF more
                 THEN [it |-> [it1 EXCEPT !.start = Some(start + 1)],
                       ret |-> Ok(Some(start))]
                 ELSE [it |-> it1, ret |-> Ok(None)]

\* next() testing the bit at start also when end is resolved.
ChildIndexIter_next_bittest(b, it) ==
    LET s0 == select0(b, it.node)
    IN  IF it.start = None /\ s0 = None THEN [it |-> it, ret |-> Panic]
        ELSE LET start == IF it.start = None THEN s0[1] + 1 ELSE it.start[1]
                 it1   == [it EXCEPT !.start = Some(start)]
             IN  IF ~InRange(b, start) THEN [it |-> it1, ret |-> Panic]
                 ELSE IF access(b, start)
                      THEN [it |-> [it1 EXCEPT !.start = Some(start + 1)],
                            ret |-> Ok(Some(start))]
                      ELSE [it |-> it1, ret |-> Ok(None)]

ChildIndexIter_next(b, it) ==
    LET s0 == select0(b, it.node)
    IN  IF it.start = None /\ s0 = None THEN [it |-> it, ret |-> Panic]
        ELSE LET start == IF it.start = None THEN s0[1] + 1 ELSE it.start[1]
                 it1   == [it EXCEPT !.start = Some(start)]
             IN  IF it.end = None /\ ~InRange(b, start) THEN [it |-> it1, ret |-> Panic]
                 ELSE LET more == IF it.end # None THEN start <= it.end[1]
                                  ELSE access(b, start)
                      IN  IF more
                          THEN [it |-> [it1 EXCEPT !.start = Some(start + 1)],
                                ret |-> Ok(Some(start))]
                          ELSE [it |-> it1, ret |-> Ok(None)]

\* next_back() starting at the next terminator instead of one before it.
ChildIndexIter_next_back_at(b, it) ==
    LET s0 == select0(b, it.node + 1)
    IN  IF it.end = None /\ s0 = None THEN [it |-> it, ret |-> Panic]
        ELSE LET end == IF it.end = None THEN s0[1] ELSE it.end[1]
                 it1 == [it EXCEPT !.end = Some(end)]
             IN  IF it.start = None /\ ~InRange(b, end) THEN [it |-> it1, ret |-> Panic]
                 ELSE LET more == IF it.start # None THEN it.start[1] <= end
                                  ELSE access(b, end)
                      IN  IF ~more THEN [it |-> it1, ret |-> Ok(None)]
                          ELSE IF end < 1 THEN [it |-> it1, ret |-> Underflow]
                          ELSE [it |-> [it1 EXCEPT !.end = Some(end - 1)],
                                ret |-> Ok(Some(end))]

\* next_back() stepping end down also when it yields nothing.
ChildIndexIter_next_back_always(b, it) ==
    LET s0 == select0(b, it.node + 1)
    IN  IF it.end = None /\ s0 = None THEN [it |-> it, ret |-> Panic]
        ELSE IF it.end = None /\ s0[1] < 1 THEN [it |-> it, ret |-> Underflow]
        ELSE LET end == IF it.end = None THEN s0[1] - 1 ELSE it.end[1]
                 it1 == [it EXCEPT !.end = Some(end)]
             IN  IF it.start = None /\ ~InRange(b, end) THEN [it |-> it1, ret |-> Panic]
                 ELSE LET more == IF it.start # None THEN it.start[1] <= end
                                  ELSE access(b, end)
                      IN  IF end < 1 THEN [it |-> it1, ret |-> Underflow]
                          ELSE [it |-> [it1 EXCEPT !.end = Some(end - 1)],
                                ret |-> IF more THEN Ok(Some(end)) ELSE Ok(None)]

ChildIndexIter_next_back(b, it) ==
    LET s0 == select0(b, it.node + 1)
    IN  IF it.end = None /\ s0 = None THEN [it |-> it, ret |-> Panic]
        ELSE IF it.end = None /\ s0[1] < 1 THEN [it |-> it, ret |-> Underflow]
        ELSE LET end == IF it.end = None THEN s0[1] - 1 ELSE it.end[1]
                 it1 == [it EXCEPT !.end = Some(end)]
             IN  IF it.start = None /\ ~InRange(b, end) THEN [it |-> it1, ret |-> Panic]
                 ELSE LET more == IF it.start # None THEN it.start[1] <= end
                                  ELSE access(b, end)
                      IN  IF ~more THEN [it |-> it1, ret |-> Ok(None)]
                          ELSE IF end < 1 THEN [it |-> it1, ret |-> Underflow]
                          ELSE [it |-> [it1 EXCEPT !.end = Some(end - 1)],
                                ret |-> Ok(Some(end))]

\* len() resolving end to the next terminator itself.
ChildIndexIter_len_endat(b, it) ==
    LET s0 == select0(b, it.node)
        s1 == select0(b, it.node + 1)
    IN  IF it.start = None /\ s0 = None THEN [it |-> it, ret |-> Panic]
        ELSE LET start == IF it.start = None THEN s0[1] + 1 ELSE it.start[1]
                 it1   == [it EXCEPT !.start = Some(start)]
             IN  IF it.end = None /\ s1 = None THEN [it |-> it1, ret |-> Panic]
                 ELSE LET end == IF it.end = None THEN s1[1] ELSE it.end[1]
                          it2 == [it1 EXCEPT !.end = Some(end)]
                      IN  IF end + 1 < start THEN [it |-> it2, ret |-> Underflow]
                          ELSE [it |-> it2, ret |-> Ok(<<end + 1 - start>>)]

\* len() computed as end - start.
ChildIndexIter_len_excl(b, it) ==
    LET s0 == select0(b, it.node)
        s1 == select0(b, it.node + 1)
    IN  IF it.start = None /\ s0 = None THEN [it |-> it, ret |-> Panic]
        ELSE LET start == IF it.start = None THEN s0[1] + 1 ELSE it.start[1]
                 it1   == [it EXCEPT !.start = Some(start)]
             IN  IF it.end = None /\ s1 = None THEN [it |-> it1, ret |-> Panic]
                 ELSE IF it.end = None /\ s1[1] < 1 THEN [it |-> it1, ret |-> Underflow]
                 ELSE LET end == IF it.end = None THEN s1[1] - 1 ELSE it.end[1]
                          it2 == [it1 EXCEPT !.end = Some(end)]
                      IN  IF end < start THEN [it |-> it2, ret |-> Underflow]
                          ELSE [it |-> it2, ret |-> Ok(<<end - start>>)]

\* len() computed as (end - start) + 1: the subtraction comes first.
ChildIndexIter_len_subfirst(b, it) ==
    LET s0 == select0(b, it.node)
        s1 == select0(b, it.node + 1)
    IN  IF it.start = None /\ s0 = None THEN [it |-> it, ret |-> Panic]
        ELSE LET start == IF it.start = None THEN s0[1] + 1 ELSE it.start[1]
                 it1   == [it EXCEPT !.start = Some(start)]
             IN  IF it.end = None /\ s1 = None THEN [it |-> it1, ret |-> Panic]
                 ELSE IF it.end = None /\ s1[1] < 1 THEN [it |-> it1, ret |-> Underflow]
                 ELSE LET end == IF it.end = None THEN s1[1] - 1 ELSE it.end[1]
                          it2 == [it1 EXCEPT !.end = Some(end)]
                      IN  IF end < start THEN [it |-> it2, ret |-> Underflow]
                          ELSE [it |-> it2, ret |-> Ok(<<(end - start) + 1>>)]

ChildIndexIter_len(b, it) ==
    LET s0 == select0(b, it.node)
        s1 == select0(b, it.node + 1)
    IN  IF it.start = None /\ s0 = None THEN [it |-> it, ret |-> Panic]
        ELSE LET start == IF it.start = None THEN s0[1] + 1 ELSE it.start[1]
                 it1   == [it EXCEPT !.start = Some(start)]
             IN  IF it.end = None /\ s1 = None THEN [it |-> it1, ret |-> Panic]
                 ELSE IF it.end = None /\ s1[1] < 1 THEN [it |-> it1, ret |-> Underflow]
                 ELSE LET end == IF it.end = None THEN s1[1] - 1 ELSE it.end[1]
                          it2 == [it1 EXCEPT !.end = Some(end)]
                      IN  IF end + 1 < start THEN [it |-> it2, ret |-> Underflow]
                          ELSE [it |-> it2, ret |-> Ok(<<end + 1 - start>>)]

\* is_empty answering len() != 0.
ChildIndexIter_is_empty_neg(b, it) ==
    LET r == ChildIndexIter_len(b, it)
    IN  IF r.ret.ok THEN [it |-> r.it, ret |-> Ok(<<IF r.ret.v[1] # 0 THEN 1 ELSE 0>>)]
        ELSE r

\* is_empty returns a bool, encoded 1 (true) / 0 (false).
ChildIndexIter_is_empty(b, it) ==
    LET r == ChildIndexIter_len(b, it)
    IN  IF r.ret.ok THEN [it |-> r.it, ret |-> Ok(<<IF r.ret.v[1] = 0 THEN 1 ELSE 0>>)]
        ELSE r

\* The select0 queries of one call, by argument and in order: next()
\* queries select0(node) when start is unresolved, next_back()
\* select0(node + 1) when end is unresolved, len() both in that order (the
\* second only when the first did not panic).
ChildIndexIter_next_select0(it) == IF it.start = None THEN <<it.node>> ELSE <<>>

ChildIndexIter_next_back_select0(it) == IF it.end = None THEN <<it.node + 1>> ELSE <<>>

\* len() querying both bounds whether resolved or not.
ChildIndexIter_len_select0_always(b, it) == <<it.node, it.node + 1>>

ChildIndexIter_len_select0(b, it) ==
    IF it.start = None /\ select0(b, it.node) = None THEN <<it.node>>
    ELSE ChildIndexIter_next_select0(it) \o ChildIndexIter_next_back_select0(it)

\* The map going through child_to_parent instead of index_to_node_num.
MapToNode_parent(b, r) ==
    IF r.ret.ok /\ r.ret.v # None
    THEN [it |-> r.it, ret |-> child_to_parent(b, r.ret.v[1])]
    ELSE r

\* Option::map(|index| inner.index_to_node_num(index)) on an iterator result.
MapToNode(b, r) ==
    IF r.ret.ok /\ r.ret.v # None
    THEN [it |-> r.it, ret |-> index_to_node_num(b, r.ret.v[1])]
    ELSE r

ChildNodeIter_next(b, it) == MapToNode(b, ChildIndexIter_next(b, it))

ChildNodeIter_next_back(b, it) == MapToNode(b, ChildIndexIter_next_back(b, it))

ChildNodeIter_len(b, it) == ChildIndexIter_len(b, it)

ChildNodeIter_is_empty(b, it) ==
    LET r == ChildNodeIter_len(b, it)
    IN  IF r.ret.ok THEN [it |-> r.it, ret |-> Ok(<<IF r.ret.v[1] = 0 THEN 1 ELSE 0>>)]
        ELSE r

\* Iterator::rev().collect() into a Vec: next_back() until None.
RECURSIVE collect_rev(_, _, _)
collect_rev(b, it, acc) ==
    LET r == ChildIndexIter_next_back(b, it)
    IN  IF ~r.ret.ok THEN r.ret
        ELSE IF r.ret.v = None THEN Ok(acc)
        ELSE collect_rev(b, r.it, Append(acc, r.ret.v[1]))

\* Iterator::collect into a Vec: next() until None.
RECURSIVE collect(_, _, _)
collect(b, it, acc) ==
    LET r == ChildIndexIter_next(b, it)
    IN  IF ~r.ret.ok THEN r.ret
        ELSE IF r.ret.v = None THEN Ok(acc)
        ELSE collect(b, r.it, Append(acc, r.ret.v[1]))

parent_to_children(b, node_num) ==
    LET r == parent_to_children_indices(b, node_num)
    IN  IF ~r.ret.ok THEN r.ret ELSE collect(b, r.it, <<>>)

(***************************************************************************)
(* The ChildIndexIter of src/louds/louds.rs, {inner, index, end}: index is *)
(* resolved when the iterator is made, end by a scan to the next 0-bit at  *)
(* the first next_back().  u64 values are modelled WordBits wide.  The     *)
(* record also carries the node the iterator was made for and whether the  *)
(* build checks integer overflow (a debug build panics, a release build    *)
(* wraps).                                                                 *)
(***************************************************************************)
\* Width of the machine word standing for u64; every position fits.
WordBits == 4

Word == 2 ^ WordBits

NoEager == [live |-> FALSE, node |-> 0, index |-> 0, end |-> None, checks |-> TRUE]

louds_parent_to_children_indices(b, node_num) ==
    IF ~(node_num > 0) THEN [it |-> NoEager, ret |-> Panic]
    ELSE LET s0 == select0(b, node_num)
         IN  IF s0 = None THEN [it |-> NoEager, ret |-> Panic]
             ELSE [it  |-> [live |-> TRUE, node |-> node_num, index |-> s0[1] + 1,
                            end |-> None, checks |-> TRUE],
                   ret |-> Ok(<<>>)]

louds_ChildIndexIter_next(b, it) ==
    IF it.end = None /\ ~InRange(b, it.index) THEN [it |-> it, ret |-> Panic]
    ELSE LET more == IF it.end # None THEN it.index <= it.end[1]
                     ELSE access(b, it.index)
         IN  IF ~more THEN [it |-> it, ret |-> Ok(None)]
             ELSE IF it.index + 1 >= Word /\ it.checks THEN [it |-> it, ret |-> Panic]
             ELSE [it  |-> [it EXCEPT !.index = (it.index + 1) % Word],
                   ret |-> Ok(Some(it.index))]

\* The scan of next_back(): the first position from i on that holds a
\* 0-bit, None when the scan runs off the sequence (a panic).
RECURSIVE louds_scan(_, _)
louds_scan(b, i) ==
    IF ~InRange(b, i) THEN None
    ELSE IF access(b, i) THEN louds_scan(b, i + 1)
    ELSE Some(i)

louds_ChildIndexIter_next_back(b, it) ==
    LET i == louds_scan(b, it.index)
    IN  IF it.end = None /\ i = None THEN [it |-> it, ret |-> Panic]
        ELSE IF it.end = None /\ i[1] < 1 /\ it.checks THEN [it |-> it, ret |-> Underflow]
        ELSE LET cur    == IF it.end = None THEN (i[1] - 1) % Word ELSE it.end[1]
                 it1    == [it EXCEPT !.end = Some(cur)]
                 result == IF cur >= it.index THEN Some(cur) ELSE None
             IN  IF cur < 1 /\ it.checks THEN [it |-> it1, ret |-> Underflow]
                 ELSE [it  |-> [it1 EXCEPT !.end = Some((cur - 1) % Word)],
                       ret |-> Ok(result)]

(***************************************************************************)
(* The state machine: one constructor call, then any sequence of queries   *)
(* and iterator operations on the tree.                                    *)
(***************************************************************************)
\* Number of real nodes of a bit sequence: its 1-bits.
NumNodes(b) == rank(b, Len(b) - 1)

\* How far past the last node / last position the arguments of a call go.
Beyond == 2

\* Arguments tried by the calls: node numbers 0..N+Beyond and positions
\* 0..length-1+Beyond (the ends lie outside the tree).
NodeArgs == 0 .. NumNodes(lbs) + Beyond
IndexArgs == 0 .. Len(lbs) - 1 + Beyond

Call(op, arg, ret) == [op |-> op, arg |-> arg, ret |-> ret]

\* What the iterator held has yielded so far: the items of next() and of
\* next_back(), each in the order of the calls, and whether each has
\* returned None.
NoHist == [front |-> <<>>, back |-> <<>>, doneF |-> FALSE, doneB |-> FALSE]

\* Two iterators over the same tree, and the calls made on each.
NoPair == [A |-> NoIter, B |-> NoIter]
NoRuns == [A |-> <<>>, B |-> <<>>]

\* The calls made so far on the iterator held, the arguments of the select0
\* queries they issued, in order, and its twin: an iterator created by the
\* same call that is given the same next() and next_back() calls but none
\* of the len() and is_empty() calls.
NoTrace == [ops |-> {}, sel |-> <<>>, twin |-> NoIter]

Init ==
    /\ input \in Inputs
    /\ phase = "new"
    /\ lbs = <<>>
    /\ last = Call("none", 0, Ok(<<>>))
    /\ iter = NoIter
    /\ text = <<>>
    /\ hist = NoHist
    /\ pair = NoPair
    /\ runs = NoRuns
    /\ trace = NoTrace
    /\ eager = NoEager

\* impl From<&[bool]> for Louds
From ==
    /\ phase = "new"
    /\ IF validate_lbs(input)
       THEN phase' = "built" /\ lbs' = input /\ last' = Call("from", 0, Ok(<<>>))
       ELSE phase' = "rejected" /\ lbs' = <<>> /\ last' = Call("from", 0, Panic)
    /\ UNCHANGED <<input, iter, text, hist, pair, runs, trace, eager>>

\* The state before Louds::from(&str).
TextInit ==
    /\ text \in Texts
    /\ input = <<>>
    /\ phase = "new"
    /\ lbs = <<>>
    /\ last = Call("none", 0, Ok(<<>>))
    /\ iter = NoIter
    /\ hist = NoHist
    /\ pair = NoPair
    /\ runs = NoRuns
    /\ trace = NoTrace
    /\ eager = NoEager

\* impl From<&str> for Louds
FromStr ==
    /\ phase = "new"
    /\ LET r == from_str(text)
       IN  IF r.ok
           THEN phase' = "built" /\ lbs' = r.lbs /\ last' = Call("from_str", 0, Ok(<<>>))
           ELSE phase' = "rejected" /\ lbs' = <<>> /\ last' = Call("from_str", 0, Panic)
    /\ UNCHANGED <<input, iter, text, hist, pair, runs, trace, eager>>

NodeNumToIndex ==
    /\ phase = "built"
    /\ \E n \in NodeArgs : last' = Call("node_num_to_index", n, node_num_to_index(lbs, n))
    /\ UNCHANGED <<input, phase, lbs, iter, text, hist, pair, runs, trace, eager>>

IndexToNodeNum ==
    /\ phase = "built"
    /\ \E i \in IndexArgs : last' = Call("index_to_node_num", i, index_to_node_num(lbs, i))
    /\ UNCHANGED <<input, phase, lbs, iter, text, hist, pair, runs, trace, eager>>

ChildToParent ==
    /\ phase = "built"
    /\ \E i \in IndexArgs : last' = Call("child_to_parent", i, child_to_parent(lbs, i))
    /\ UNCHANGED <<input, phase, lbs, iter, text, hist, pair, runs, trace, eager>>

ParentToChildren ==
    /\ phase = "built"
    /\ \E n \in NodeArgs : last' = Call("parent_to_children", n, parent_to_children(lbs, n))
    /\ UNCHANGED <<input, phase, lbs, iter, text, hist, pair, runs, trace, eager>>

\* A new iterator replaces the one held; a panicking call returns none.
ParentToChildrenIndices ==
    /\ phase = "built"
    /\ \E n \in NodeArgs :
         LET r == parent_to_children_indices(lbs, n)
         IN  /\ last' = Call("parent_to_children_indices", n, r.ret)
             /\ iter' = IF r.ret.ok THEN r.it ELSE iter
             /\ hist' = IF r.ret.ok THEN NoHist ELSE hist
             /\ trace' = IF r.ret.ok THEN [NoTrace EXCEPT !.twin = r.it] ELSE trace
    /\ UNCHANGED <<input, phase, lbs, text, pair, runs, eager>>

ParentToChildrenNodes ==
    /\ phase = "built"
    /\ \E n \in NodeArgs :
         LET r == parent_to_children_nodes(lbs, n)
         IN  /\ last' = Call("parent_to_children_nodes", n, r.ret)
             /\ iter' = IF r.ret.ok THEN r.it ELSE iter
             /\ hist' = IF r.ret.ok THEN NoHist ELSE hist
             /\ trace' = IF r.ret.ok THEN [NoTrace EXCEPT !.twin = r.it] ELSE trace
    /\ UNCHANGED <<input, phase, lbs, text, pair, runs, eager>>

\* The history after a call op that returned ret.
Record(h, op, ret) ==
    IF ~ret.ok \/ op \notin {"next", "next_back"} THEN h
    ELSE IF op = "next"
         THEN IF ret.v = None THEN [h EXCEPT !.doneF = TRUE]
              ELSE [h EXCEPT !.front = Append(@, ret.v[1])]
         ELSE IF ret.v = None THEN [h EXCEPT !.doneB = TRUE]
              ELSE [h EXCEPT !.back = Append(@, ret.v[1])]

\* The call op on iterator it of b, by the iterator's kind.
CallOn(op, b, it) ==
    CASE op = "next" ->
           IF it.kind = "node" THEN ChildNodeIter_next(b, it) ELSE ChildIndexIter_next(b, it)
      [] op = "next_back" ->
           IF it.kind = "node" THEN ChildNodeIter_next_back(b, it)
           ELSE ChildIndexIter_next_back(b, it)
      [] op = "len" ->
           IF it.kind = "node" THEN ChildNodeIter_len(b, it) ELSE ChildIndexIter_len(b, it)
      [] op = "is_empty" ->
           IF it.kind = "node" THEN ChildNodeIter_is_empty(b, it)
           ELSE ChildIndexIter_is_empty(b, it)

\* Most select0 queries logged for one iterator (an iterator of a missing
\* node repeats its failing query at every call).
MaxQueries == 4

\* A call op on the iterator held: r is its outcome, q the select0
\* arguments it queries.
IterStep(op, r, q) ==
    /\ Len(trace.sel) + Len(q) <= MaxQueries
    /\ last' = Call(op, iter.node, r.ret)
    /\ iter' = r.it
    /\ hist' = Record(hist, op, r.ret)
    /\ trace' = [ops  |-> trace.ops \cup {op},
                 sel  |-> trace.sel \o q,
                 twin |-> IF op \in {"next", "next_back"}
                          THEN CallOn(op, lbs, trace.twin).it ELSE trace.twin]
    /\ UNCHANGED <<input, phase, lbs, text, pair, runs, eager>>

IterNext ==
    /\ phase = "built" /\ iter.live
    /\ IterStep("next",
                IF iter.kind = "node" THEN ChildNodeIter_next(lbs, iter)
                ELSE ChildIndexIter_next(lbs, iter),
                ChildIndexIter_next_select0(iter))

IterNextBack ==
    /\ phase = "built" /\ iter.live
    /\ IterStep("next_back",
                IF iter.kind = "node" THEN ChildNodeIter_next_back(lbs, iter)
                ELSE ChildIndexIter_next_back(lbs, iter),
                ChildIndexIter_next_back_select0(iter))

IterLen ==
    /\ phase = "built" /\ iter.live
    /\ IterStep("len",
                IF iter.kind = "node" THEN ChildNodeIter_len(lbs, iter)
                ELSE ChildIndexIter_len(lbs, iter),
                ChildIndexIter_len_select0(lbs, iter))

IterIsEmpty ==
    /\ phase = "built" /\ iter.live
    /\ IterStep("is_empty",
                IF iter.kind = "node" THEN ChildNodeIter_is_empty(lbs, iter)
                ELSE ChildIndexIter_is_empty(lbs, iter),
                ChildIndexIter_len_select0(lbs, iter))

(***************************************************************************)
(* Two iterators A and B over the same tree, advanced in any interleaving. *)
(***************************************************************************)
\* Longest bit sequence of the trees that carry two iterators.
MaxPairLen == 5

\* Most calls made on each of the two iterators.
MaxRun == 2

PairInit ==
    /\ input \in BitSeqs(MaxPairLen)
    /\ phase = "new"
    /\ lbs = <<>>
    /\ last = Call("none", 0, Ok(<<>>))
    /\ iter = NoIter
    /\ text = <<>>
    /\ hist = NoHist
    /\ pair = NoPair
    /\ runs = NoRuns
    /\ trace = NoTrace
    /\ eager = NoEager

\* let a = louds.parent_to_children_indices(na);
\* let b = louds.parent_to_children_indices(nb);
NewPair ==
    /\ phase = "built" /\ pair = NoPair
    /\ \E na, nb \in NodeArgs \ {0} :
         pair' = [A |-> parent_to_children_indices(lbs, na).it,
                  B |-> parent_to_children_indices(lbs, nb).it]
    /\ runs' = NoRuns
    /\ UNCHANGED <<input, phase, lbs, last, iter, text, hist, trace, eager>>

\* One call of an iterator, by name.
Apply(op, b, it) ==
    CASE op = "next" -> ChildIndexIter_next(b, it)
      [] op = "next_back" -> ChildIndexIter_next_back(b, it)
      [] op = "len" -> ChildIndexIter_len(b, it)

\* The call writes the cursors of both iterators, as if the bounds were
\* kept in the tree they share.
PairApply_shared(p, x, r) ==
    [y \in {"A", "B"} |->
       IF y = x THEN r.it ELSE [p[y] EXCEPT !.start = r.it.start, !.end = r.it.end]]

\* The two iterators after a call on iterator x (&mut self) returned r.
PairApply(p, x, r) == [p EXCEPT ![x] = r.it]

PairStep(op) ==
    /\ phase = "built" /\ pair # NoPair
    /\ \E x \in {"A", "B"} :
         /\ Len(runs[x]) < MaxRun
         /\ LET r == Apply(op, lbs, pair[x])
            IN  /\ pair' = PairApply(pair, x, r)
                /\ runs' = [runs EXCEPT ![x] = Append(@, [op |-> op, ret |-> r.ret])]
    /\ UNCHANGED <<input, phase, lbs, last, iter, text, hist, trace, eager>>

PairNext == PairStep("next")

PairNextBack == PairStep("next_back")

PairLen == PairStep("len")

PairNextStep ==
    \/ From
    \/ NewPair
    \/ PairNext
    \/ PairNextBack
    \/ PairLen

(***************************************************************************)
(* The iterator of src/louds/louds.rs, in a build with or without overflow *)
(* checks.                                                                 *)
(***************************************************************************)
\* Longest bit sequence of the trees that carry this iterator.
MaxEagerLen == 5

EagerInit ==
    /\ input \in BitSeqs(MaxEagerLen)
    /\ phase = "new"
    /\ lbs = <<>>
    /\ last = Call("none", 0, Ok(<<>>))
    /\ iter = NoIter
    /\ text = <<>>
    /\ hist = NoHist
    /\ pair = NoPair
    /\ runs = NoRuns
    /\ trace = NoTrace
    /\ eager \in {[NoEager EXCEPT !.checks = c] : c \in BOOLEAN}

EagerParentToChildrenIndices ==
    /\ phase = "built"
    /\ \E n \in NodeArgs :
         LET r == louds_parent_to_children_indices(lbs, n)
         IN  /\ last' = Call("parent_to_children_indices", n, r.ret)
             /\ eager' = IF r.ret.ok THEN [r.it EXCEPT !.checks = eager.checks] ELSE eager
             /\ hist' = IF r.ret.ok THEN NoHist ELSE hist
    /\ UNCHANGED <<input, phase, lbs, iter, text, pair, runs, trace>>

\* Of this iterator the history keeps only whether next() and next_back()
\* have returned None.
Exhausted(h, op, ret) ==
    IF ret # Ok(None) THEN h
    ELSE IF op = "next" THEN [h EXCEPT !.doneF = TRUE]
    ELSE [h EXCEPT !.doneB = TRUE]

EagerStep(op, r) ==
    /\ last' = Call(op, eager.node, r.ret)
    /\ eager' = r.it
    /\ hist' = Exhausted(hist, op, r.ret)
    /\ UNCHANGED <<input, phase, lbs, iter, text, pair, runs, trace>>

EagerNext ==
    /\ phase = "built" /\ eager.live
    /\ EagerStep("next", louds_ChildIndexIter_next(lbs, eager))

EagerNextBack ==
    /\ phase = "built" /\ eager.live
    /\ EagerStep("next_back", louds_ChildIndexIter_next_back(lbs, eager))

EagerNextStep ==
    \/ From
    \/ EagerParentToChildrenIndices
    \/ EagerNext
    \/ EagerNextBack

\* The queries of Louds, which read the tree only.
QueryNext ==
    \/ From
    \/ NodeNumToIndex
    \/ IndexToNodeNum
    \/ ChildToParent
    \/ ParentToChildren

\* The children iterators: creation and every operation on the one held.
IterNextStep ==
    \/ From
    \/ ParentToChildrenIndices
    \/ ParentToChildrenNodes
    \/ IterNext
    \/ IterNextBack
    \/ IterLen
    \/ IterIsEmpty

\* Construction from a token string, then the queries.
TextNext ==
    \/ FromStr
    \/ NodeNumToIndex
    \/ IndexToNodeNum
    \/ ChildToParent
    \/ ParentToChildren

Next == QueryNext \/ IterNextStep \/ PairNextStep \/ EagerNextStep

\* The whole machine.  The queries leave iter alone and the iterator
\* operations read only lbs and iter, so the two halves are also checked
\* apart: QuerySpec for the queries, IterSpec for the iterators.
Spec == Init /\ [][Next]_vars

QuerySpec == Init /\ [][QueryNext]_vars

IterSpec == Init /\ [][IterNextStep]_vars

TextSpec == TextInit /\ [][TextNext]_vars

PairSpec == PairInit /\ [][PairNextStep]_vars

EagerSpec == EagerInit /\ [][EagerNextStep]_vars

(***************************************************************************)
(* Vocabulary of the properties, defined on the bit sequence itself and    *)
(* independently of the Fid operations above.                              *)
(***************************************************************************)
\* Positions of a bit sequence.
Positions(b) == 0 .. Len(b) - 1

\* Number of 1-bits / 0-bits in the closed range [0, p].
CountOnes(b, p) == Cardinality({q \in 0 .. p : q < Len(b) /\ b[q + 1] = 1})
CountZeros(b, p) == Cardinality({q \in 0 .. p : q < Len(b) /\ b[q + 1] = 0})

\* N: the number of real nodes.
N(b) == CountOnes(b, Len(b) - 1)

\* The position of the k-th 1-bit / 0-bit (1-origin); used only where it exists.
KthOne(b, k) == CHOOSE p \in Positions(b) : b[p + 1] = 1 /\ CountOnes(b, p) = k
KthZero(b, k) == CHOOSE p \in Positions(b) : b[p + 1] = 0 /\ CountZeros(b, p) = k

\* The positions lo..hi in ascending order.
RangeSeq(lo, hi) == [i \in 1 .. (IF hi < lo THEN 0 ELSE hi + 1 - lo) |-> lo + i - 1]

\* Node numbers that do not exist in the tree b, as far as the calls go.
MissingNodes(b) == {0} \cup (N(b) + 1 .. N(b) + Beyond)

\* The three conditions of an LBS.
StartsWith10(b) == Len(b) >= 2 /\ b[1] = 1 /\ b[2] = 0
PrefixBalanced(b) == \A i \in Positions(b) : CountZeros(b, i) <= CountOnes(b, i) + 1
Balanced(b) == CountZeros(b, Len(b) - 1) = CountOnes(b, Len(b) - 1) + 1
IsLbs(b) == StartsWith10(b) /\ PrefixBalanced(b) /\ Balanced(b)

\* The degree sequence read off a bit sequence that ends in 0: the lengths
\* of its runs of 1s, each run closed by a 0.  deg[1] belongs to the virtual
\* root (node 0), deg[k + 1] to node k.
RECURSIVE Degrees(_, _, _, _)
Degrees(b, i, run, acc) ==
    IF i > Len(b) THEN acc
    ELSE IF b[i] = 1 THEN Degrees(b, i + 1, run + 1, acc)
    ELSE Degrees(b, i + 1, 0, Append(acc, run))

\* The level-order encoding of a degree sequence: for each node, one 1-bit
\* per child and then one 0-bit.
RECURSIVE Encode(_)
Encode(deg) ==
    IF deg = <<>> THEN <<>>
    ELSE [i \in 1 .. Head(deg) |-> 1] \o <<0>> \o Encode(Tail(deg))

\* Level-order construction of a tree from the degrees d[1..] of its nodes
\* 1, 2, ...: node k must have been created (as the root or as a child of an
\* earlier node) when its turn comes, and in the end exactly the nodes that
\* have a degree exist.
RECURSIVE BuildsTree(_, _, _)
BuildsTree(d, k, created) ==
    IF k > Len(d) THEN created = Len(d)
    ELSE IF k > created THEN FALSE
    ELSE BuildsTree(d, k + 1, created + d[k])

\* b is the level-order encoding of a rooted ordered tree of >= 1 nodes.
IsTreeEncoding(b) ==
    /\ Len(b) >= 3
    /\ b[Len(b)] = 0
    /\ LET deg == Degrees(b, 1, 0, <<>>)
       IN  /\ Encode(deg) = b
           /\ deg[1] = 1
           /\ Len(deg) >= 2
           /\ BuildsTree(Tail(deg), 1, 1)

\* The parent of node m by level-order numbering: the children of node 0
\* are numbered from 1, those of each next node follow on.  deg as read by
\* Degrees.
RECURSIVE ParentOf(_, _, _, _)
ParentOf(deg, m, k, firstChild) ==
    IF k > Len(deg) THEN 0 - 1
    ELSE IF m < firstChild + deg[k] THEN k - 1
    ELSE ParentOf(deg, m, k + 1, firstChild + deg[k])

Built == phase = "built"

(***************************************************************************)
(* Properties.                                                             *)
(***************************************************************************)
\* C1: in every accepted tree, for every real node n in 1..N,
\* index_to_node_num(node_num_to_index(n)) = n.
C1_RoundTrip ==
    Built =>
        /\ \A n \in 1 .. N(lbs) :
             LET i == node_num_to_index(lbs, n)
             IN  i.ok /\ index_to_node_num(lbs, i.v[1]) = Ok(<<n>>)
        /\ (last.op = "node_num_to_index" /\ last.arg \in 1 .. N(lbs)) =>
             (last.ret.ok /\ index_to_node_num(lbs, last.ret.v[1]) = Ok(<<last.arg>>))

C1_Witness ==
    /\ Built /\ lbs = RefTree
    /\ last = Call("node_num_to_index", 8, Ok(<<11>>))
    /\ index_to_node_num(lbs, 11) = Ok(<<8>>)

\* C2: in every accepted tree, for every real node n and every position p
\* returned by parent_to_children(n), child_to_parent(p) = n.
C2_ChildrenHaveParent ==
    Built =>
        /\ \A n \in 1 .. N(lbs) :
             LET c == parent_to_children(lbs, n)
             IN  c.ok /\ \A k \in 1 .. Len(c.v) : child_to_parent(lbs, c.v[k]) = Ok(<<n>>)
        /\ (last.op = "parent_to_children" /\ last.arg \in 1 .. N(lbs)) =>
             (last.ret.ok /\ \A k \in 1 .. Len(last.ret.v) :
                               child_to_parent(lbs, last.ret.v[k]) = Ok(<<last.arg>>))

C2_Witness ==
    /\ Built /\ lbs = RefTree
    /\ last = Call("parent_to_children", 4, Ok(<<9, 10, 11>>))
    /\ child_to_parent(lbs, 10) = Ok(<<4>>)

\* C3: construction accepts a bit sequence exactly when it starts with 1,0,
\* every prefix has count0 <= count1 + 1 and the whole has
\* count0 = count1 + 1; every other sequence (the empty and the one-bit ones
\* too) is rejected and no tree is produced.
C3_AcceptsIffLbs ==
    /\ phase = "built" => (IsLbs(input) /\ lbs = input)
    /\ phase = "rejected" => (~IsLbs(input) /\ lbs = <<>>)
    /\ last.op = "from" => (last.ret.ok <=> IsLbs(input))
    /\ validate_lbs(input) <=> IsLbs(input)

\* A sequence that starts with 1,0 and is balanced as a whole, rejected for
\* its prefix 1,0,0,0.
C3_Witness ==
    /\ phase = "rejected" /\ input = <<1, 0, 0, 0, 1, 1, 0>>
    /\ StartsWith10(input) /\ Balanced(input) /\ ~PrefixBalanced(input)

\* C4: a bit sequence is accepted if and only if it is the level-order
\* encoding of some rooted ordered tree with N >= 1 nodes.
C4_AcceptsIffTreeEncoding ==
    phase # "new" => (phase = "built" <=> IsTreeEncoding(input))

\* C5: in every accepted tree, node_num_to_index(n) is the position of the
\* n-th 1-bit for every n in 1..N; on the reference tree nodes 1..11 map to
\* positions 0,2,3,4,6,9,10,11,15,17,18.
RefNodePositions == <<0, 2, 3, 4, 6, 9, 10, 11, 15, 17, 18>>

C5_NodeNumToIndexIsNthOne ==
    Built =>
        /\ \A n \in 1 .. N(lbs) : node_num_to_index(lbs, n) = Ok(<<KthOne(lbs, n)>>)
        /\ (last.op = "node_num_to_index" /\ last.arg \in 1 .. N(lbs)) =>
             (/\ last.ret.ok
              /\ lbs[last.ret.v[1] + 1] = 1
              /\ CountOnes(lbs, last.ret.v[1]) = last.arg)
        /\ lbs = RefTree =>
             /\ N(lbs) = 11
             /\ \A n \in 1 .. 11 : node_num_to_index(lbs, n) = Ok(<<RefNodePositions[n]>>)

C5_Witness ==
    /\ Built /\ lbs = RefTree
    /\ last = Call("node_num_to_index", 9, Ok(<<15>>))

\* C6: in every accepted tree, for every position p whose bit is 1,
\* index_to_node_num(p) is the number of 1-bits in [0, p].
C6_IndexToNodeNumIsRank ==
    Built =>
        /\ \A p \in Positions(lbs) :
             lbs[p + 1] = 1 => index_to_node_num(lbs, p) = Ok(<<CountOnes(lbs, p)>>)
        /\ (last.op = "index_to_node_num" /\ last.arg \in Positions(lbs)
              /\ lbs[last.arg + 1] = 1) =>
             last.ret = Ok(<<CountOnes(lbs, last.arg)>>)

C6_Witness ==
    /\ Built /\ lbs = RefTree
    /\ last = Call("index_to_node_num", 15, Ok(<<9>>))

\* C7: in every accepted tree, for every position p # 0 whose bit is 1,
\* child_to_parent(p) is the number of 0-bits in [0, p], and that number
\* is the parent, by level-order numbering, of the node whose inbound edge
\* is at p; on the reference tree child_to_parent(11) = 4 and
\* child_to_parent(18) = 8.
C7_ChildToParentIsRank0 ==
    Built =>
        /\ \A p \in Positions(lbs) \ {0} :
             lbs[p + 1] = 1 =>
               /\ child_to_parent(lbs, p) = Ok(<<CountZeros(lbs, p)>>)
               /\ CountZeros(lbs, p) =
                    ParentOf(Degrees(lbs, 1, 0, <<>>), CountOnes(lbs, p), 1, 1)
        /\ (last.op = "child_to_parent" /\ last.arg \in Positions(lbs) \ {0}
              /\ lbs[last.arg + 1] = 1) =>
             last.ret = Ok(<<CountZeros(lbs, last.arg)>>)
        /\ lbs = RefTree =>
             /\ child_to_parent(lbs, 11) = Ok(<<4>>)
             /\ child_to_parent(lbs, 18) = Ok(<<8>>)

C7_Witness ==
    /\ Built /\ lbs = RefTree
    /\ last = Call("child_to_parent", 18, Ok(<<8>>))
    /\ ParentOf(Degrees(lbs, 1, 0, <<>>), 11, 1, 1) = 8

\* C8: in every accepted tree, for every node n in 1..N,
\* parent_to_children(n) is, in ascending order, exactly the positions
\* select0(n)+1 .. select0(n+1)-1 (none when the two 0-bits are adjacent),
\* each holding a 1-bit; on the reference tree node 8 gives 17,18 and node 1
\* gives 2,3,4.
C8_ChildrenAreTheRun ==
    Built =>
        /\ \A n \in 1 .. N(lbs) :
             LET c == parent_to_children(lbs, n)
             IN  /\ c = Ok(RangeSeq(KthZero(lbs, n) + 1, KthZero(lbs, n + 1) - 1))
                 /\ \A k \in 1 .. Len(c.v) : lbs[c.v[k] + 1] = 1
        /\ (last.op = "parent_to_children" /\ last.arg \in 1 .. N(lbs)) =>
             last.ret = Ok(RangeSeq(KthZero(lbs, last.arg) + 1,
                                    KthZero(lbs, last.arg + 1) - 1))
        /\ lbs = RefTree =>
             /\ parent_to_children(lbs, 8) = Ok(<<17, 18>>)
             /\ parent_to_children(lbs, 1) = Ok(<<2, 3, 4>>)

C8_Witness ==
    /\ Built /\ lbs = RefTree
    /\ last = Call("parent_to_children", 8, Ok(<<17, 18>>))

\* C9: parent_to_children(node) fails, returning no vector, for node 0 and
\* for every node number greater than N, node N+1 included although
\* select0(N+1) (the final 0-bit) exists.
C9_ChildrenOfMissingNodeFails ==
    Built =>
        /\ \A n \in MissingNodes(lbs) : ~parent_to_children(lbs, n).ok
        /\ (last.op = "parent_to_children" /\ last.arg \in MissingNodes(lbs)) =>
             ~last.ret.ok

\* Node N+1 of the tree 10_0: its select0 exists, the call fails.
C9_Witness ==
    /\ Built /\ lbs = <<1, 0, 0>>
    /\ last = Call("parent_to_children", 2, Panic)
    /\ select0(lbs, 2) = Some(2)

\* C10: parent_to_children_indices(node) and parent_to_children_nodes(node)
\* fail at the call itself whenever node = 0 or node > N.
C10_IteratorOfMissingNodeFailsAtCall ==
    (/\ Built
     /\ last.op \in {"parent_to_children_indices", "parent_to_children_nodes"}
     /\ last.arg \in MissingNodes(lbs)) => ~last.ret.ok

\* Positions tried by the calls, inside the sequence and past its end.
TriedPositions(b) == 0 .. Len(b) - 1 + Beyond

\* Position p holds a 1-bit of b.
IsOne(b, p) == p \in Positions(b) /\ b[p + 1] = 1

\* C11: node_num_to_index(node) fails for node 0 and for every node number
\* greater than N, and returns no position then.
C11_IndexOfMissingNodeFails ==
    Built =>
        /\ \A n \in MissingNodes(lbs) : node_num_to_index(lbs, n) = Panic
        /\ (last.op = "node_num_to_index" /\ last.arg \in MissingNodes(lbs)) =>
             (~last.ret.ok /\ last.ret.v = <<>>)

C11_Witness ==
    /\ Built /\ lbs = RefTree
    /\ last = Call("node_num_to_index", 12, Panic)

\* C12: index_to_node_num(position) fails for every position whose bit is 0
\* and for every position at or beyond the length; it returns a node number
\* only for 1-bit positions.
C12_NodeNumOfNonNodeFails ==
    Built =>
        /\ \A p \in TriedPositions(lbs) :
             index_to_node_num(lbs, p).ok <=> IsOne(lbs, p)
        /\ last.op = "index_to_node_num" => (last.ret.ok <=> IsOne(lbs, last.arg))

\* A 0-bit position and a position past the end, both refused.
C12_Witness ==
    /\ Built /\ lbs = RefTree
    /\ last = Call("index_to_node_num", 23, Panic)
    /\ index_to_node_num(lbs, 5) = Panic

\* C13: child_to_parent(position) fails for position 0 in every accepted
\* tree, and for every position whose bit is 0 or that lies beyond the
\* sequence; it never returns node 0 as a parent.
C13_ParentOfRootOrNonNodeFails ==
    Built =>
        /\ \A p \in TriedPositions(lbs) :
             LET r == child_to_parent(lbs, p)
             IN  /\ (p = 0 \/ ~IsOne(lbs, p)) => ~r.ok
                 /\ r.ok => r.v[1] # 0
        /\ last.op = "child_to_parent" =>
             /\ (last.arg = 0 \/ ~IsOne(lbs, last.arg)) => ~last.ret.ok
             /\ last.ret.ok => last.ret.v[1] # 0

C13_Witness ==
    /\ Built /\ lbs = <<1, 0, 1, 0, 0>>
    /\ last = Call("child_to_parent", 0, Panic)
    /\ IsOne(lbs, 0)

\* The bits of the characters of a token string that are '0' or '1'.
IsBitChar(c) == c \in {"0", "1"}
RemainingBits(s) ==
    LET kept == SelectSeq(s, IsBitChar)
    IN  [i \in 1 .. Len(kept) |-> IF kept[i] = "1" THEN 1 ELSE 0]

\* The string holds a character other than '0', '1' and '_'.
HasOtherChar(s) == \E i \in 1 .. Len(s) : s[i] \notin {"0", "1", "_"}

\* C14: construction from a token string rejects every string holding a
\* character other than '0', '1', '_'; otherwise it accepts or rejects
\* exactly as construction from the bits of the remaining characters does
\* (validate_lbs on them), and the tree built holds exactly those bits, so
\* that it answers every query as the tree built from the bits does.
C14_FromStrAsFromBits ==
    last.op = "from_str" =>
        /\ HasOtherChar(text) => (phase = "rejected" /\ ~last.ret.ok /\ lbs = <<>>)
        /\ ~HasOtherChar(text) =>
             /\ (phase = "built") = validate_lbs(RemainingBits(text))
             /\ last.ret.ok = validate_lbs(RemainingBits(text))
             /\ phase = "built" =>
                  /\ lbs = RemainingBits(text)
                  /\ \A n \in NodeArgs :
                       /\ node_num_to_index(lbs, n)
                            = node_num_to_index(RemainingBits(text), n)
                       /\ parent_to_children(lbs, n)
                            = parent_to_children(RemainingBits(text), n)
                  /\ \A p \in IndexArgs :
                       /\ index_to_node_num(lbs, p)
                            = index_to_node_num(RemainingBits(text), p)
                       /\ child_to_parent(lbs, p)
                            = child_to_parent(RemainingBits(text), p)

\* A string with separators, accepted as the tree 10_0.
C14_Witness ==
    /\ text = <<"1", "0", "_", "_", "0">>
    /\ phase = "built" /\ lbs = <<1, 0, 0>>
    /\ last = Call("from_str", 0, Ok(<<>>))

\* A sequence back to front.
Reverse(s) == [i \in 1 .. Len(s) |-> s[Len(s) + 1 - i]]

\* The child positions of node n of b, ascending: the run of 1-bits between
\* the n-th and the (n+1)-th 0-bit.
Children(b, n) == RangeSeq(KthZero(b, n) + 1, KthZero(b, n + 1) - 1)

\* The iterator as parent_to_children_indices / parent_to_children_nodes
\* returns it.
Fresh(n) == [live |-> TRUE, kind |-> "index", node |-> n, start |-> None, end |-> None]

\* The iterator held belongs to an existing node of the tree.
OnNode == Built /\ iter.live /\ iter.node \in 1 .. N(lbs)

\* C15: for every accepted tree and node n in 1..N, draining the children
\* iterator with next_back() only gives the reverse of draining a fresh
\* iterator with next() only.
C15_BackwardIsReverseOfForward ==
    /\ Built =>
         \A n \in 1 .. N(lbs) :
           LET fwd == collect(lbs, Fresh(n), <<>>)
               bwd == collect_rev(lbs, Fresh(n), <<>>)
           IN  fwd.ok /\ bwd.ok /\ bwd.v = Reverse(fwd.v)
    /\ (OnNode /\ iter.kind = "index" /\ hist.doneB
          /\ hist.front = <<>> /\ ~hist.doneF) =>
         hist.back = Reverse(collect(lbs, Fresh(iter.node), <<>>).v)

C15_Witness ==
    /\ OnNode /\ lbs = RefTree /\ iter.kind = "index" /\ iter.node = 1
    /\ hist = [front |-> <<>>, back |-> <<4, 3, 2>>, doneF |-> FALSE, doneB |-> TRUE]

\* C16: for every accepted tree, node n in 1..N and every interleaving of
\* next() and next_back(), once both have returned None the items of
\* next() followed by the items of next_back() reversed are the full
\* forward children sequence; at every moment the items yielded, with what
\* forward advancing would still yield between them, are that sequence, so
\* every child position is yielded exactly once and nothing else is.
C16_InterleavingYieldsEachChildOnce ==
    (OnNode /\ iter.kind = "index") =>
        /\ (hist.doneF /\ hist.doneB) =>
             hist.front \o Reverse(hist.back) = Children(lbs, iter.node)
        /\ LET rest == collect(lbs, iter, <<>>)
           IN  /\ rest.ok
               /\ hist.front \o rest.v \o Reverse(hist.back) = Children(lbs, iter.node)

C16_Witness ==
    /\ OnNode /\ lbs = RefTree /\ iter.kind = "index" /\ iter.node = 1
    /\ hist = [front |-> <<2>>, back |-> <<4, 3>>, doneF |-> TRUE, doneB |-> TRUE]

\* C17: for every accepted tree and node n in 1..N, after any sequence of
\* next()/next_back() calls, len() is the number of items exhaustive
\* forward advancing would still yield, it is end + 1 - start, and it is 0
\* without underflow once the cursors have met (start <= end + 1 whenever
\* both bounds are resolved).
C17_LenIsRemainingCount ==
    OnNode =>
        /\ LET r == ChildIndexIter_len(lbs, iter)
           IN  /\ r.ret = Ok(<<Len(collect(lbs, iter, <<>>).v)>>)
               /\ r.ret.v[1] = r.it.end[1] + 1 - r.it.start[1]
        /\ (iter.start # None /\ iter.end # None) => iter.start[1] <= iter.end[1] + 1
        /\ last.op = "len" =>
             /\ last.ret = Ok(<<Len(collect(lbs, iter, <<>>).v)>>)
             /\ last.ret.v[1] = iter.end[1] + 1 - iter.start[1]

\* One item left between two drawn from the front and the back.
C17_Witness ==
    /\ OnNode /\ lbs = RefTree /\ iter.kind = "index" /\ iter.node = 1
    /\ hist.front = <<2>> /\ hist.back = <<4>>
    /\ last = Call("len", 1, Ok(<<1>>))

\* The bit right after the terminator that opens node n's run is 0.
IsLeaf(b, n) == b[KthZero(b, n) + 2] = 0

\* C18: for every accepted tree and node n in 1..N, is_empty() on a fresh
\* children iterator is true exactly when the bit at select0(n)+1 is 0, and
\* exactly then parent_to_children(n) is empty and the first next() and the
\* first next_back() return None.
C18_EmptyIffLeaf ==
    /\ Built =>
         \A n \in 1 .. N(lbs) :
           /\ ChildIndexIter_is_empty(lbs, Fresh(n)).ret
                = Ok(<<IF IsLeaf(lbs, n) THEN 1 ELSE 0>>)
           /\ IsLeaf(lbs, n) <=> parent_to_children(lbs, n) = Ok(<<>>)
           /\ IsLeaf(lbs, n) <=> ChildIndexIter_next(lbs, Fresh(n)).ret = Ok(None)
           /\ IsLeaf(lbs, n) <=> ChildIndexIter_next_back(lbs, Fresh(n)).ret = Ok(None)
    /\ (OnNode /\ last.op = "is_empty" /\ hist = NoHist) =>
         last.ret = Ok(<<IF IsLeaf(lbs, iter.node) THEN 1 ELSE 0>>)

C18_Witness ==
    /\ OnNode /\ lbs = RefTree /\ iter.node = 3 /\ hist = NoHist
    /\ last = Call("is_empty", 3, Ok(<<1>>))
    /\ IsLeaf(lbs, 3)

\* The result of a node iterator's call that belongs to the result ri of
\* the same call on the index iterator.
NodeResult(b, ri) ==
    IF ri.ok /\ ri.v # None THEN Ok(Some(CountOnes(b, ri.v[1]))) ELSE ri

\* The node numbers of a sequence of positions.
NodesOf(b, ps) == [i \in 1 .. Len(ps) |-> CountOnes(b, ps[i])]

\* C19: parent_to_children_nodes(n) yields, whatever was called before,
\* index_to_node_num of the position parent_to_children_indices(n) yields
\* for the same call, moving the cursors alike; len()/is_empty() agree; the
\* mapping never fails on a yielded position; on the reference tree node 1
\* gives nodes 2,3,4.
C19_NodeIterMapsIndexIter ==
    OnNode =>
        /\ LET ri == ChildIndexIter_next(lbs, iter)
               rn == ChildNodeIter_next(lbs, iter)
           IN  rn.it = ri.it /\ rn.ret = NodeResult(lbs, ri.ret)
        /\ LET ri == ChildIndexIter_next_back(lbs, iter)
               rn == ChildNodeIter_next_back(lbs, iter)
           IN  rn.it = ri.it /\ rn.ret = NodeResult(lbs, ri.ret)
        /\ ChildNodeIter_len(lbs, iter) = ChildIndexIter_len(lbs, iter)
        /\ ChildNodeIter_is_empty(lbs, iter) = ChildIndexIter_is_empty(lbs, iter)
        /\ iter.kind = "node" =>
             /\ last.op \in {"next", "next_back", "len", "is_empty"} => last.ret.ok
             /\ LET rest == collect(lbs, iter, <<>>).v
                IN  hist.front \o NodesOf(lbs, rest) \o Reverse(hist.back)
                      = NodesOf(lbs, Children(lbs, iter.node))
             /\ (lbs = RefTree /\ iter.node = 1 /\ hist.doneF /\ hist.back = <<>>) =>
                  hist.front = <<2, 3, 4>>

C19_Witness ==
    /\ OnNode /\ lbs = RefTree /\ iter.kind = "node" /\ iter.node = 1
    /\ hist = [front |-> <<2, 3, 4>>, back |-> <<>>, doneF |-> TRUE, doneB |-> FALSE]

\* The iterator and the results of the calls ops[k..] made on iterator it
\* alone.
RECURSIVE Alone(_, _, _, _, _)
Alone(b, it, ops, k, rets) ==
    IF k > Len(ops) THEN [it |-> it, rets |-> rets]
    ELSE LET r == Apply(ops[k].op, b, it)
         IN  Alone(b, r.it, ops, k + 1, Append(rets, r.ret))

Cursors(b, it) ==
    [start |-> IF it.start = None THEN KthZero(b, it.node) + 1 ELSE it.start[1],
     end   |-> IF it.end = None THEN KthZero(b, it.node + 1) - 1 ELSE it.end[1]]

\* C21: once next() or next_back() has returned None on a children iterator
\* of an existing node, every later next() and next_back() call returns None
\* and leaves both cursors where they stand (a bound not yet resolved is at
\* most resolved to its place, never moved), whichever bounds were resolved
\* when exhaustion was first reported.
C21_ExhaustedStaysExhausted ==
    [][(OnNode /\ (hist.doneF \/ hist.doneB) /\ last'.op \in {"next", "next_back"}) =>
         /\ last'.ret = Ok(None)
         /\ Cursors(lbs, iter') = Cursors(lbs, iter)
         /\ iter.start # None => iter'.start = iter.start
         /\ iter.end # None => iter'.end = iter.end]_vars

\* next() ran node 1 of the reference tree dry with end unresolved, then
\* next_back() resolved end and reported exhaustion too.
C21_Witness ==
    /\ OnNode /\ lbs = RefTree /\ iter.kind = "index" /\ iter.node = 1
    /\ hist = [front |-> <<2, 3, 4>>, back |-> <<>>, doneF |-> TRUE, doneB |-> TRUE]
    /\ last = Call("next_back", 1, Ok(None))
    /\ iter.start = Some(5) /\ iter.end = Some(4)

\* select0(k) is among the queries logged.
Queried(k) == \E j \in 1 .. Len(trace.sel) : trace.sel[j] = k

\* C22: a newly created children iterator has both bounds unresolved; after
\* any number of next() calls only, end is still unresolved and
\* select0(node+1) was never queried; after any number of next_back() calls
\* only, start is still unresolved and select0(node) was never queried.
C22_BoundsResolvedOnDemand ==
    (Built /\ iter.live) =>
        /\ trace.ops = {} =>
             (iter.start = None /\ iter.end = None /\ trace.sel = <<>>)
        /\ (last.op \in {"parent_to_children_indices", "parent_to_children_nodes"}
              /\ last.ret.ok) => trace.ops = {}
        /\ trace.ops \subseteq {"next"} => (iter.end = None /\ ~Queried(iter.node + 1))
        /\ trace.ops \subseteq {"next_back"} => (iter.start = None /\ ~Queried(iter.node))

\* Node 1 of the reference tree drained by next() alone.
C22_Witness ==
    /\ OnNode /\ lbs = RefTree /\ iter.kind = "index" /\ iter.node = 1
    /\ trace.ops = {"next"} /\ trace.sel = <<1>>
    /\ hist.front = <<2, 3, 4>> /\ hist.doneF
    /\ iter.start = Some(5) /\ iter.end = None

\* How many of the two bounds of an iterator are unresolved.
Unresolved(it) ==
    (IF it.start = None THEN 1 ELSE 0) + (IF it.end = None THEN 1 ELSE 0)

C24_AcceptedHasOddLength ==
    /\ Built =>
         /\ N(lbs) >= 1
         /\ Cardinality({p \in Positions(lbs) : lbs[p + 1] = 1}) = N(lbs)
         /\ Cardinality({p \in Positions(lbs) : lbs[p + 1] = 0}) = N(lbs) + 1
         /\ Len(lbs) = 2 * N(lbs) + 1
         /\ Len(lbs) >= 3
         /\ lbs[Len(lbs)] = 0
    /\ input = <<1, 0>> => phase # "built"
    /\ last.op = "from" => (last.ret.ok => Len(input) >= 3)

\* The reference tree: 11 nodes, 23 bits.
C24_Witness ==
    /\ Built /\ lbs = RefTree /\ last = Call("from", 0, Ok(<<>>))
    /\ N(lbs) = 11 /\ Len(lbs) = 23

\* A position the module takes: it holds a 1-bit and index_to_node_num
\* answers for it.
TakenPosition(b, p) == IsOne(b, p) /\ index_to_node_num(b, p).ok

\* A node number the module takes: it lies in 1..N and node_num_to_index
\* and parent_to_children answer for it.
TakenNode(b, n) ==
    /\ n \in 1 .. N(b)
    /\ node_num_to_index(b, n).ok
    /\ parent_to_children(b, n).ok

\* C25: in every accepted tree, each position returned by
\* node_num_to_index, parent_to_children or a children iterator is a 1-bit
\* position accepted by index_to_node_num, and each node number returned by
\* index_to_node_num, child_to_parent or parent_to_children_nodes lies in
\* 1..N and is accepted by node_num_to_index and parent_to_children.
C25_ReturnedValuesAreValidInputs ==
    Built =>
        /\ last.op = "from" =>
             /\ \A n \in NodeArgs :
                  LET i == node_num_to_index(lbs, n)
                      c == parent_to_children(lbs, n)
                  IN  /\ i.ok => TakenPosition(lbs, i.v[1])
                      /\ c.ok => \A k \in 1 .. Len(c.v) : TakenPosition(lbs, c.v[k])
             /\ \A p \in IndexArgs :
                  LET m == index_to_node_num(lbs, p)
                      q == child_to_parent(lbs, p)
                  IN  /\ m.ok => TakenNode(lbs, m.v[1])
                      /\ q.ok => TakenNode(lbs, q.v[1])
        /\ iter.live =>
             \A v \in {hist.front[k] : k \in 1 .. Len(hist.front)}
                        \cup {hist.back[k] : k \in 1 .. Len(hist.back)}
                        \cup (IF last.op \in {"next", "next_back"} /\ last.ret.ok
                              THEN {last.ret.v[k] : k \in 1 .. Len(last.ret.v)} ELSE {}) :
               IF iter.kind = "index" THEN TakenPosition(lbs, v) ELSE TakenNode(lbs, v)

\* The node iterator of node 4 of the reference tree has yielded node 8
\* from the back.
C25_Witness ==
    /\ OnNode /\ lbs = RefTree /\ iter.kind = "node" /\ iter.node = 4
    /\ hist.back = <<8>> /\ last = Call("next_back", 4, Ok(<<8>>))
    /\ node_num_to_index(lbs, 8) = Ok(<<11>>) /\ parent_to_children(lbs, 8) = Ok(<<17, 18>>)

\* The number of parent steps (node_num_to_index, then child_to_parent) from
\* node n up to node 1; -1 when node 1 is not reached within N steps or a
\* call fails on the way.
RECURSIVE StepsToRoot(_, _, _)
StepsToRoot(b, n, k) ==
    IF n = 1 THEN k
    ELSE IF k >= N(b) THEN 0 - 1
    ELSE LET i == node_num_to_index(b, n)
             q == IF i.ok THEN child_to_parent(b, i.v[1]) ELSE Panic
         IN  IF q.ok THEN StepsToRoot(b, q.v[1], k + 1) ELSE 0 - 1

\* C26: in every accepted tree no node is its own ancestor: for every 1-bit
\* position p # 0, child_to_parent(p) is strictly smaller than
\* index_to_node_num(p), and from any real node repeated node_num_to_index
\* then child_to_parent reaches node 1 after at most N-1 steps.
C26_NoNodeIsItsOwnAncestor ==
    (Built /\ last.op = "child_to_parent" /\ last.ret.ok) =>
        LET m == index_to_node_num(lbs, last.arg).v[1]
        IN  /\ last.ret.v[1] < m
            /\ StepsToRoot(lbs, m, 0) \in 0 .. N(lbs) - 1

\* The same on the accepted sequences that do encode a tree.
C26_OnTreeEncodings ==
    (Built /\ IsTreeEncoding(lbs)) =>
        /\ \A p \in Positions(lbs) \ {0} :
             lbs[p + 1] = 1 =>
               child_to_parent(lbs, p).v[1] < index_to_node_num(lbs, p).v[1]
        /\ \A n \in 1 .. N(lbs) : StepsToRoot(lbs, n, 0) \in 0 .. N(lbs) - 1
        /\ (last.op = "child_to_parent" /\ last.ret.ok) =>
             last.ret.v[1] < index_to_node_num(lbs, last.arg).v[1]

\* The node numbers a node iterator yields when advanced forward until it
\* reports None (the empty sequence if a call fails).
RECURSIVE Drain(_, _, _)
Drain(b, it, acc) ==
    LET r == ChildNodeIter_next(b, it)
    IN  IF ~r.ret.ok THEN <<>>
        ELSE IF r.ret.v = None THEN acc
        ELSE Drain(b, r.it, Append(acc, r.ret.v[1]))

\* The nodes parent_to_children_nodes(n) yields, as a sequence.
NodesYielded(b, n) == Drain(b, parent_to_children_nodes(b, n).it, <<>>)

\* How often m occurs in a sequence.
Occurrences(s, m) == Cardinality({k \in 1 .. Len(s) : s[k] = m})

\* The number of positions in the children lists of nodes 1..n together.
RECURSIVE ChildrenTotal(_, _)
ChildrenTotal(b, n) ==
    IF n = 0 THEN 0 ELSE Len(parent_to_children(b, n).v) + ChildrenTotal(b, n - 1)

\* C27: in every accepted tree the children ranges partition the non-root
\* nodes: each real node m in 2..N is yielded by parent_to_children_nodes(n)
\* for exactly one n in 1..N, once, and that n is
\* child_to_parent(node_num_to_index(m)); node 1 is yielded for no n; the
\* children lists of all nodes together contain exactly N-1 positions.
C27_ChildrenPartitionTheNodes ==
    /\ (Built /\ last.op = "from") =>
         /\ \A m \in 2 .. N(lbs) :
              /\ Cardinality({n \in 1 .. N(lbs) : Occurrences(NodesYielded(lbs, n), m) > 0}) = 1
              /\ \A n \in 1 .. N(lbs) :
                   LET occ == Occurrences(NodesYielded(lbs, n), m)
                   IN  IF child_to_parent(lbs, node_num_to_index(lbs, m).v[1]) = Ok(<<n>>)
                       THEN occ = 1 ELSE occ = 0
         /\ \A n \in 1 .. N(lbs) : Occurrences(NodesYielded(lbs, n), 1) = 0
         /\ ChildrenTotal(lbs, N(lbs)) = N(lbs) - 1
    /\ (OnNode /\ iter.kind = "node") =>
         \A k \in 1 .. Len(hist.front) :
           /\ hist.front[k] \in 2 .. N(lbs)
           /\ child_to_parent(lbs, node_num_to_index(lbs, hist.front[k]).v[1])
                = Ok(<<iter.node>>)
           /\ Occurrences(hist.front, hist.front[k]) = 1

\* The node iterator of node 4 of the reference tree drained: nodes 6, 7, 8,
\* whose parent is node 4.
C27_Witness ==
    /\ OnNode /\ lbs = RefTree /\ iter.kind = "node" /\ iter.node = 4
    /\ hist = [front |-> <<6, 7, 8>>, back |-> <<>>, doneF |-> TRUE, doneB |-> FALSE]
    /\ child_to_parent(lbs, node_num_to_index(lbs, 7).v[1]) = Ok(<<4>>)

IterOps == {"next", "next_back", "len", "is_empty"}

\* C28: for every accepted tree and every existing node n in 1..N (the last
\* node N included), every sequence of next/next_back/len/is_empty calls on
\* its children iterator completes without error: the n-th and (n+1)-th
\* 0-bit both exist, the cursors stay between them (so no bit outside
\* positions 0..2N is read), and no cursor arithmetic (start + 1, end - 1,
\* select0 - 1, end + 1 - start) overflows or underflows.
C28_CallsOnExistingNodeNeverFail ==
    OnNode =>
        /\ Len(lbs) = 2 * N(lbs) + 1
        /\ CountZeros(lbs, Len(lbs) - 1) >= iter.node + 1
        /\ last.op \in IterOps => last.ret.ok
        /\ \A op \in IterOps : CallOn(op, lbs, iter).ret.ok
        /\ iter.start # None =>
             iter.start[1] \in KthZero(lbs, iter.node) + 1 .. KthZero(lbs, iter.node + 1)
        /\ iter.end # None =>
             iter.end[1] \in KthZero(lbs, iter.node) .. KthZero(lbs, iter.node + 1) - 1
        /\ (iter.start # None /\ iter.end # None) => iter.end[1] + 1 >= iter.start[1]

\* The last node of the reference tree: next(), next_back() and len() have
\* all answered.
C28_Witness ==
    /\ OnNode /\ lbs = RefTree /\ iter.node = N(lbs)
    /\ hist.doneF /\ hist.doneB
    /\ last = Call("len", 11, Ok(<<0>>))
    /\ iter.start = Some(22) /\ iter.end = Some(21)

\* C29: calling len() or is_empty() at any point between next()/next_back()
\* calls does not change which items the iterator yields afterwards nor
\* their order: every next()/next_back() call returns what the same call
\* returns on the twin iterator, which was given the same call sequence
\* with the len()/is_empty() calls removed; the two stand at the same
\* cursors and differ only in bounds that len() resolved.
C29_LenDoesNotChangeTheYield ==
    /\ [](OnNode =>
            /\ trace.twin.node = iter.node /\ trace.twin.kind = iter.kind
            /\ Cursors(lbs, trace.twin) = Cursors(lbs, iter)
            /\ trace.twin.start # None => iter.start = trace.twin.start
            /\ trace.twin.end # None => iter.end = trace.twin.end
            /\ \A op \in {"next", "next_back"} :
                 CallOn(op, lbs, iter).ret = CallOn(op, lbs, trace.twin).ret)
    /\ [][(OnNode /\ last'.op \in {"next", "next_back"}) =>
            last'.ret = CallOn(last'.op, lbs, trace.twin).ret]_vars

\* len() first, then node 1 of the reference tree drained by next(): the
\* iterator compares start with end, its twin tests bits.
C29_Witness ==
    /\ OnNode /\ lbs = RefTree /\ iter.kind = "index" /\ iter.node = 1
    /\ trace.ops = {"len", "next"}
    /\ hist.front = <<2, 3, 4>> /\ hist.doneF
    /\ iter.start = Some(5) /\ iter.end = Some(4)
    /\ trace.twin.start = Some(5) /\ trace.twin.end = None

\* The iterator of src/louds/louds.rs held belongs to an existing node.
EagerOnNode == Built /\ eager.live /\ eager.node \in 1 .. N(lbs)

\* C30: in the ChildIndexIter of src/louds/louds.rs, next_back() called any
\* number of times after the iterator is exhausted keeps returning None,
\* the u64 end is never decremented below 0 (no underflow panic, no
\* wrap-around to a value past the sequence), and a later next() never
\* yields a position that is not a child of the node.
C30_EagerNextBackStaysExhausted ==
    EagerOnNode =>
        /\ (hist.doneB /\ last.op = "next_back") => last.ret = Ok(None)
        /\ last.ret # Underflow
        /\ eager.end # None => eager.end[1] < Len(lbs)
        /\ (last.op = "next" /\ last.ret.ok /\ last.ret.v # None) =>
             \E k \in 1 .. Len(Children(lbs, eager.node)) :
               Children(lbs, eager.node)[k] = last.ret.v[1]

====
